---- MODULE Spec2Model ----
(***************************************************************************)
(* MLB -> Notion pipeline (src/app.py): odds math, pick derivation, team   *)
(* normalization, the keyed upsert and the two runs (daily, odds ingest).  *)
(*                                                                         *)
(* Encodings                                                               *)
(*   - a text (team code, CSV cell, Game Key) is a tuple of one-character  *)
(*     strings, a character without a TLA+ escape or outside ASCII being   *)
(*     the token of its code point ("<U+00A0>"); Python's None is the      *)
(*     value None below, the empty text is <<>>;                           *)
(*   - a float v is Num(v) = <<"<float>", v>>, so that None never meets a  *)
(*     bare integer in a comparison and no text reads as a float;          *)
(*   - a probability or an edge is an exact fraction <<num, den>>.  The    *)
(*     code computes in IEEE doubles: where the exact value sits exactly   *)
(*     on a rounding or comparison boundary, the double may fall just      *)
(*     below it, on it, or just above it.  That placement is the `tie'     *)
(*     argument of the operators concerned; away from a boundary it has    *)
(*     no effect.  Each computation lands on its own side, the same one    *)
(*     every time it is repeated on the same prices: the variable `tie'    *)
(*     records the side of every computation that has met a boundary.      *)
(*   - a total such as 8.5 is carried in tenths (85).                      *)
(***************************************************************************)
EXTENDS Integers, Sequences, FiniteSets, TLC

\* ---------------------------------------------------------------- bounds
MaxCodeLen == 4
MaxEdgePct == 30
MaxGames == 2
MaxOddsRows == 2
MaxRetryRows == 1

\* ------------------------------------------------------------- fractions
RECURSIVE Gcd(_, _)
Gcd(a, b) == IF b = 0 THEN a ELSE Gcd(b, a % b)

Abs(n) == IF n < 0 THEN -n ELSE n

Frac(n, d) ==
    LET s == IF d < 0 THEN -1 ELSE 1
        g == Gcd(Abs(n), Abs(d))
    IN  <<(s * n) \div g, (s * d) \div g>>

FAdd(x, y) == Frac(x[1] * y[2] + y[1] * x[2], x[2] * y[2])
FSub(x, y) == Frac(x[1] * y[2] - y[1] * x[2], x[2] * y[2])
FMul(x, y) == Frac(x[1] * y[1], x[2] * y[2])
FDiv(x, y) == Frac(x[1] * y[2], x[2] * y[1])
FLt(x, y) == x[1] * y[2] < y[1] * x[2]
FEq(x, y) == x[1] * y[2] = y[1] * x[2]
FAbs(x) == <<Abs(x[1]), x[2]>>
FMax(x, y) == IF FLt(x, y) THEN y ELSE x

Half == <<1, 2>>

\* Python's None.
None == <<"<None>">>

\* Where a double lands relative to an exact boundary value.
Tie == {"below", "exact", "above"}

\* x < y as the doubles compare, x being the computed side.
FloatLt(x, y, tie) == IF FEq(x, y) THEN tie = "below" ELSE FLt(x, y)
\* x >= y as the doubles compare.
FloatGe(x, y, tie) == ~FloatLt(x, y, tie)

\* Python's round(): to nearest, an exact half to the even neighbour.
Round(x, tie) ==
    LET q == x[1] \div x[2]
        r == x[1] % x[2]
    IN  IF 2 * r < x[2] THEN q
        ELSE IF 2 * r > x[2] THEN q + 1
        ELSE CASE tie = "below" -> q
               [] tie = "above" -> q + 1
               [] OTHER -> IF q % 2 = 0 THEN q ELSE q + 1

Max2(a, b) == IF a >= b THEN a ELSE b
Min2(a, b) == IF a <= b THEN a ELSE b

\* -------------------------------------------------------------- odds math
american_to_implied(ml) ==
    IF ml < 0 THEN Frac(-ml, (-ml) + 100) ELSE Frac(100, ml + 100)

remove_vig(p_a, p_b) ==
    LET s == FAdd(p_a, p_b)
    IN  IF s[1] = 0 THEN <<Half, Half>> ELSE <<FDiv(p_a, s), FDiv(p_b, s)>>

\* 3 + (edge_prob / 0.05) * 1.5
Score(edge_prob) == FAdd(<<3, 1>>, FMul(FDiv(edge_prob, <<5, 100>>), <<3, 2>>))

\* The score rounded but not clamped to 1..10.
edge_to_conf_unclamped(edge_prob, tie) ==
    LET e == IF edge_prob[1] < 0 THEN <<0, 1>> ELSE edge_prob
    IN  Round(Score(e), tie)

edge_to_conf_1_10(edge_prob, tie) ==
    LET e == IF edge_prob[1] < 0 THEN <<0, 1>> ELSE edge_prob
    IN  Max2(1, Min2(10, Round(Score(e), tie)))

\* str(x) of a float with one decimal, given in tenths: 85 prints as 8.5.
Digit(d) == <<"0", "1", "2", "3", "4", "5", "6", "7", "8", "9">>[d + 1]

RECURSIVE IntStr(_)
IntStr(n) == IF n < 10 THEN <<Digit(n)>> ELSE IntStr(n \div 10) \o <<Digit(n % 10)>>

FloatStr(tenths) ==
    (IF tenths < 0 THEN <<"-">> ELSE <<>>)
        \o IntStr(Abs(tenths) \div 10) \o <<".", Digit(Abs(tenths) % 10)>>

NoEdge == <<"N", "o", " ", "E", "d", "g", "e">>

pick_moneyline_from_market(ml_home, ml_away, tie) ==
    LET nv == remove_vig(american_to_implied(ml_home), american_to_implied(ml_away))
    IN  IF ~FLt(nv[1], nv[2])
        THEN <<"HOME ML", edge_to_conf_1_10(FAbs(FSub(nv[1], Half)), tie), nv[1]>>
        ELSE <<"AWAY ML", edge_to_conf_1_10(FAbs(FSub(nv[2], Half)), tie), nv[2]>>

pick_total_from_market(total_num, over_price, under_price, tie) ==
    LET nv == remove_vig(american_to_implied(over_price), american_to_implied(under_price))
        edge == FAbs(FSub(nv[1], Half))
    IN  IF FloatLt(edge, <<2, 100>>, tie) THEN <<NoEdge, 2>>
        ELSE IF FLt(nv[2], nv[1])
             THEN <<<<"O", "v", "e", "r", " ">> \o FloatStr(total_num),
                    edge_to_conf_1_10(edge, tie)>>
             ELSE <<<<"U", "n", "d", "e", "r", " ">> \o FloatStr(total_num),
                    edge_to_conf_1_10(edge, tie)>>

pick_runline_from_market(fav_prob_nv, tie) ==
    IF FloatGe(fav_prob_nv, <<62, 100>>, tie)
    THEN <<"FAV -1.5", edge_to_conf_1_10(FSub(fav_prob_nv, Half), tie)>>
    ELSE <<"DOG +1.5",
           Max2(2, edge_to_conf_1_10(FSub(<<62, 100>>, fav_prob_nv), tie) - 1)>>

\* ------------------------------------------- where the doubles of a quote land
\* A score that sits halfway between two integers, where round() breaks a tie.
HalfWay(score) == score[2] = 2

\* The computations of the update loop on one quote that meet a boundary: the
\* rounding of the moneyline score (the favourite's run-line score is the same
\* double), the 0.02 test or the rounding of the total's score, the 0.62 test
\* or the rounding of the underdog's run-line score.
Tied(odds) ==
    LET nv == remove_vig(american_to_implied(odds.ml_home),
                         american_to_implied(odds.ml_away))
        fav == FMax(nv[1], nv[2])
        tv == remove_vig(american_to_implied(odds.over_price),
                         american_to_implied(odds.under_price))
        edge == FAbs(FSub(tv[1], Half))
    IN  (IF HalfWay(Score(FSub(fav, Half)))
         THEN {<<"moneyline", odds.ml_home, odds.ml_away>>} ELSE {})
        \cup
        (IF odds.total # None
            /\ (FEq(edge, <<2, 100>>)
                \/ (FLt(<<2, 100>>, edge) /\ HalfWay(Score(edge))))
         THEN {<<"total", odds.over_price, odds.under_price>>} ELSE {})
        \cup
        (IF FEq(fav, <<62, 100>>)
            \/ (FLt(fav, <<62, 100>>) /\ HalfWay(Score(FSub(<<62, 100>>, fav))))
         THEN {<<"runline", odds.ml_home, odds.ml_away>>} ELSE {})

\* The sides known so far, with a side for every computation of the quote that
\* meets a boundary for the first time.
Landings(known, odds) ==
    LET need == Tied(odds) \ DOMAIN known
    IN  IF need = {} THEN {known}
        ELSE {[c \in DOMAIN known \cup need |-> IF c \in need THEN f[c] ELSE known[c]] :
                 f \in [need -> Tie]}

Landed(known, c) == IF c \in DOMAIN known THEN known[c] ELSE "exact"

\* The sides of the three derivations of one quote.
TiesOf(known, odds) ==
    [ml |-> Landed(known, <<"moneyline", odds.ml_home, odds.ml_away>>),
     tot |-> Landed(known, <<"total", odds.over_price, odds.under_price>>),
     rl |-> Landed(known, <<"runline", odds.ml_home, odds.ml_away>>)]

\* ---------------------------------------------------- team normalization

\* The characters str.strip removes: those for which str.isspace holds.
Whitespace ==
    { "\t", "\n", "<U+000B>", "\f", "\r", "<U+001C>", "<U+001D>", "<U+001E>",
      "<U+001F>", " ", "<U+0085>", "<U+00A0>", "<U+1680>", "<U+2000>", "<U+2001>", "<U+2002>",
      "<U+2003>", "<U+2004>", "<U+2005>", "<U+2006>", "<U+2007>", "<U+2008>", "<U+2009>", "<U+200A>",
      "<U+2028>", "<U+2029>", "<U+202F>", "<U+205F>", "<U+3000>" }

\* The characters str.upper leaves as they are: those of ASCII and Latin-1 but
\* the lower-case letters, the whitespace beyond Latin-1, and the capitals
\* of U+00B5 and U+00FF, which lie beyond Latin-1. The grave accent is written
\* as its token.
Unchanged ==
    { "<U+0000>", "<U+0001>", "<U+0002>", "<U+0003>", "<U+0004>", "<U+0005>", "<U+0006>", "<U+0007>",
      "<U+0008>", "\t", "\n", "<U+000B>", "\f", "\r", "<U+000E>", "<U+000F>",
      "<U+0010>", "<U+0011>", "<U+0012>", "<U+0013>", "<U+0014>", "<U+0015>", "<U+0016>", "<U+0017>",
      "<U+0018>", "<U+0019>", "<U+001A>", "<U+001B>", "<U+001C>", "<U+001D>", "<U+001E>", "<U+001F>",
      " ", "!", "\"", "#", "$", "%", "&", "'",
      "(", ")", "*", "+", ",", "-", ".", "/",
      "0", "1", "2", "3", "4", "5", "6", "7",
      "8", "9", ":", ";", "<", "=", ">", "?",
      "@", "A", "B", "C", "D", "E", "F", "G",
      "H", "I", "J", "K", "L", "M", "N", "O",
      "P", "Q", "R", "S", "T", "U", "V", "W",
      "X", "Y", "Z", "[", "\\", "]", "^", "_",
      "<U+0060>", "{", "|", "}", "~", "<U+007F>", "<U+0080>", "<U+0081>",
      "<U+0082>", "<U+0083>", "<U+0084>", "<U+0085>", "<U+0086>", "<U+0087>", "<U+0088>", "<U+0089>",
      "<U+008A>", "<U+008B>", "<U+008C>", "<U+008D>", "<U+008E>", "<U+008F>", "<U+0090>", "<U+0091>",
      "<U+0092>", "<U+0093>", "<U+0094>", "<U+0095>", "<U+0096>", "<U+0097>", "<U+0098>", "<U+0099>",
      "<U+009A>", "<U+009B>", "<U+009C>", "<U+009D>", "<U+009E>", "<U+009F>", "<U+00A0>", "<U+00A1>",
      "<U+00A2>", "<U+00A3>", "<U+00A4>", "<U+00A5>", "<U+00A6>", "<U+00A7>", "<U+00A8>", "<U+00A9>",
      "<U+00AA>", "<U+00AB>", "<U+00AC>", "<U+00AD>", "<U+00AE>", "<U+00AF>", "<U+00B0>", "<U+00B1>",
      "<U+00B2>", "<U+00B3>", "<U+00B4>", "<U+00B6>", "<U+00B7>", "<U+00B8>", "<U+00B9>", "<U+00BA>",
      "<U+00BB>", "<U+00BC>", "<U+00BD>", "<U+00BE>", "<U+00BF>", "<U+00C0>", "<U+00C1>", "<U+00C2>",
      "<U+00C3>", "<U+00C4>", "<U+00C5>", "<U+00C6>", "<U+00C7>", "<U+00C8>", "<U+00C9>", "<U+00CA>",
      "<U+00CB>", "<U+00CC>", "<U+00CD>", "<U+00CE>", "<U+00CF>", "<U+00D0>", "<U+00D1>", "<U+00D2>",
      "<U+00D3>", "<U+00D4>", "<U+00D5>", "<U+00D6>", "<U+00D7>", "<U+00D8>", "<U+00D9>", "<U+00DA>",
      "<U+00DB>", "<U+00DC>", "<U+00DD>", "<U+00DE>", "<U+00F7>", "<U+0178>", "<U+039C>", "<U+1680>",
      "<U+2000>", "<U+2001>", "<U+2002>", "<U+2003>", "<U+2004>", "<U+2005>", "<U+2006>", "<U+2007>",
      "<U+2008>", "<U+2009>", "<U+200A>", "<U+2028>", "<U+2029>", "<U+202F>", "<U+205F>", "<U+3000>" }

\* str.upper on one character, as a text: the capital of U+00DF is SS.
Upper(c) ==
    IF c \in Unchanged THEN <<c>>
    ELSE CASE c = "a" -> <<"A">>
           [] c = "b" -> <<"B">>
           [] c = "c" -> <<"C">>
           [] c = "d" -> <<"D">>
           [] c = "e" -> <<"E">>
           [] c = "f" -> <<"F">>
           [] c = "g" -> <<"G">>
           [] c = "h" -> <<"H">>
           [] c = "i" -> <<"I">>
           [] c = "j" -> <<"J">>
           [] c = "k" -> <<"K">>
           [] c = "l" -> <<"L">>
           [] c = "m" -> <<"M">>
           [] c = "n" -> <<"N">>
           [] c = "o" -> <<"O">>
           [] c = "p" -> <<"P">>
           [] c = "q" -> <<"Q">>
           [] c = "r" -> <<"R">>
           [] c = "s" -> <<"S">>
           [] c = "t" -> <<"T">>
           [] c = "u" -> <<"U">>
           [] c = "v" -> <<"V">>
           [] c = "w" -> <<"W">>
           [] c = "x" -> <<"X">>
           [] c = "y" -> <<"Y">>
           [] c = "z" -> <<"Z">>
           [] c = "<U+00B5>" -> <<"<U+039C>">>
           [] c = "<U+00DF>" -> <<"S", "S">>
           [] c = "<U+00E0>" -> <<"<U+00C0>">>
           [] c = "<U+00E1>" -> <<"<U+00C1>">>
           [] c = "<U+00E2>" -> <<"<U+00C2>">>
           [] c = "<U+00E3>" -> <<"<U+00C3>">>
           [] c = "<U+00E4>" -> <<"<U+00C4>">>
           [] c = "<U+00E5>" -> <<"<U+00C5>">>
           [] c = "<U+00E6>" -> <<"<U+00C6>">>
           [] c = "<U+00E7>" -> <<"<U+00C7>">>
           [] c = "<U+00E8>" -> <<"<U+00C8>">>
           [] c = "<U+00E9>" -> <<"<U+00C9>">>
           [] c = "<U+00EA>" -> <<"<U+00CA>">>
           [] c = "<U+00EB>" -> <<"<U+00CB>">>
           [] c = "<U+00EC>" -> <<"<U+00CC>">>
           [] c = "<U+00ED>" -> <<"<U+00CD>">>
           [] c = "<U+00EE>" -> <<"<U+00CE>">>
           [] c = "<U+00EF>" -> <<"<U+00CF>">>
           [] c = "<U+00F0>" -> <<"<U+00D0>">>
           [] c = "<U+00F1>" -> <<"<U+00D1>">>
           [] c = "<U+00F2>" -> <<"<U+00D2>">>
           [] c = "<U+00F3>" -> <<"<U+00D3>">>
           [] c = "<U+00F4>" -> <<"<U+00D4>">>
           [] c = "<U+00F5>" -> <<"<U+00D5>">>
           [] c = "<U+00F6>" -> <<"<U+00D6>">>
           [] c = "<U+00F8>" -> <<"<U+00D8>">>
           [] c = "<U+00F9>" -> <<"<U+00D9>">>
           [] c = "<U+00FA>" -> <<"<U+00DA>">>
           [] c = "<U+00FB>" -> <<"<U+00DB>">>
           [] c = "<U+00FC>" -> <<"<U+00DC>">>
           [] c = "<U+00FD>" -> <<"<U+00DD>">>
           [] c = "<U+00FE>" -> <<"<U+00DE>">>
           [] c = "<U+00FF>" -> <<"<U+0178>">>

RECURSIVE StrUpper(_)
StrUpper(t) == IF t = <<>> THEN <<>> ELSE Upper(Head(t)) \o StrUpper(Tail(t))

RECURSIVE LStrip(_)
LStrip(t) == IF t # <<>> /\ Head(t) \in Whitespace THEN LStrip(Tail(t)) ELSE t

RECURSIVE RStrip(_)
RStrip(t) ==
    IF t # <<>> /\ t[Len(t)] \in Whitespace
    THEN RStrip(SubSeq(t, 1, Len(t) - 1)) ELSE t

Strip(t) == RStrip(LStrip(t))

alias ==
    { <<<<"A","R","I">>, <<"A","Z">>>>, <<<<"D","-","B","A","C","K","S">>, <<"A","Z">>>>, <<<<"S","F","G">>, <<"S","F">>>>,
      <<<<"S","D","P">>, <<"S","D">>>>, <<<<"T","B","R">>, <<"T","B">>>>, <<<<"C","W","S">>, <<"C","H","W">>>>,
      <<<<"W","A","S">>, <<"W","S","H">>>>, <<<<"K","C","R">>, <<"K","C">>>>, <<<<"O","A","K">>, <<"A","T","H">>>>,
      <<<<"A","Z">>, <<"A","Z">>>>, <<<<"S","F">>, <<"S","F">>>>, <<<<"S","D">>, <<"S","D">>>>,
      <<<<"T","B">>, <<"T","B">>>>, <<<<"C","H","W">>, <<"C","H","W">>>>, <<<<"N","Y","Y">>, <<"N","Y","Y">>>>,
      <<<<"N","Y","M">>, <<"N","Y","M">>>>, <<<<"L","A","A">>, <<"L","A","A">>>>, <<<<"L","A","D">>, <<"L","A","D">>>>,
      <<<<"C","H","C">>, <<"C","H","C">>>>, <<<<"M","I","L">>, <<"M","I","L">>>>, <<<<"P","I","T">>, <<"P","I","T">>>>,
      <<<<"C","I","N">>, <<"C","I","N">>>>, <<<<"S","T","L">>, <<"S","T","L">>>>, <<<<"M","I","A">>, <<"M","I","A">>>>,
      <<<<"B","O","S">>, <<"B","O","S">>>>, <<<<"B","A","L">>, <<"B","A","L">>>>, <<<<"H","O","U">>, <<"H","O","U">>>>,
      <<<<"S","E","A">>, <<"S","E","A">>>>, <<<<"T","E","X">>, <<"T","E","X">>>>, <<<<"P","H","I">>, <<"P","H","I">>>>,
      <<<<"W","S","H">>, <<"W","S","H">>>>, <<<<"T","O","R">>, <<"T","O","R">>>>, <<<<"A","T","L">>, <<"A","T","L">>>>,
      <<<<"C","L","E">>, <<"C","L","E">>>>, <<<<"D","E","T">>, <<"D","E","T">>>>, <<<<"M","I","N">>, <<"M","I","N">>>>,
      <<<<"K","C">>, <<"K","C">>>>, <<<<"C","O","L">>, <<"C","O","L">>>>, <<<<"A","T","H">>, <<"A","T","H">>>>,
      <<<<"O","A","K"," ","A","'","S">>, <<"A","T","H">>>> }

AliasGet(t) ==
    IF \E p \in alias : p[1] = t THEN (CHOOSE p \in alias : p[1] = t)[2] ELSE t

\* The alias table consulted before the code is trimmed and upper-cased.
normalize_team_lookup_first(t) ==
    IF t = None \/ t = <<>> THEN t ELSE StrUpper(Strip(AliasGet(t)))

normalize_team(t) ==
    IF t = None \/ t = <<>> THEN t ELSE AliasGet(StrUpper(Strip(t)))

\* str(x) inside an f-string: None prints as the text None.
Str(t) == IF t = None THEN <<"N","o","n","e">> ELSE t

\* The f-string of the key: the three texts joined by the bar.
make_key(game_date_iso, away, home) ==
    Str(game_date_iso) \o <<"|">> \o Str(away) \o <<"|">> \o Str(home)

\* ------------------------------------------------- Notion property values
rich(text) == <<"rich_text", Str(text)>>
title_val(text) == <<"title", Str(text)>>
Num(v) == <<"<float>", v>>

\* A numeric cell: NumCell(v) is text that float() parses to v, BadCell is
\* text it rejects, <<>> is the empty cell, None a missing column.
NumCell(v) == <<"num", v>>
BadCell == <<"N/A">>

ParseOk(c) == Len(c) = 2 /\ c[1] = "num"

\* None, "" and the text none give null; a float stays, a text that float()
\* parses becomes its float, any other text gives null.
number(val) ==
    <<"number",
      IF Len(val) = 2 /\ val[1] = "<float>" THEN val
      ELSE IF ParseOk(val) THEN Num(val[2])
      ELSE None>>
date_prop(iso_date) == <<"date", iso_date>>
url(link) == <<"url", IF link = <<>> \/ link = None THEN None ELSE link>>

\* ------------------------------------------------------------ CSV writer
fields ==
    <<"game_date", "away", "home", "start_et", "away_p", "home_p",
      "ml_home", "ml_away", "total",
      "pick_ml", "conf_ml", "pick_tot", "conf_tot", "pick_rl", "conf_rl",
      "box_link", "notes", "sources">>

FieldSet == {fields[i] : i \in 1..Len(fields)}

\* csv.DictWriter writes None as the empty cell; every other value as its text.
CsvCell(v) == IF v = None THEN <<>> ELSE v

CsvRow(r) == [k \in FieldSet |-> CsvCell(r[k])]

\* A file on disk: absent, or its rows.
NoFile == [exists |-> FALSE, rows |-> <<>>]
FileOf(rows) == [exists |-> TRUE, rows |-> rows]

\* write_csv(rows, path): nothing is written for an empty list.
write_csv(rows, old) ==
    IF rows = <<>> THEN old ELSE FileOf([i \in 1..Len(rows) |-> CsvRow(rows[i])])

\* ------------------------------------------------------- destination schema
MarketProps ==
    {"ML - Market Home", "ML - Market Away", "Total (Market)"}
PickProps ==
    {"Prediction - Moneyline", "Confidence (ML)", "Prediction - Total",
     "Confidence (Total)", "Prediction - Run Line", "Confidence (Run Line)"}
OptionalProps ==
    {"Home Team", "Start Time (ET)", "Away Pitcher", "Home Pitcher",
     "Box Score Link", "Notes / Angle", "Data Source(s)"} \cup MarketProps \cup PickProps

\* props/TITLE_PROP after schema discovery: "Key" always exists, one title column.
FullSchema ==
    [TITLE_PROP |-> "Away Team",
     props |-> {"Away Team", "Key", "Game Date"} \cup OptionalProps]
BareSchema ==
    [TITLE_PROP |-> "Name",
     props |-> {"Name", "Key", "Away Team", "Home Team", "Data Source(s)"}]
Schemas == {FullSchema, BareSchema}

\* --------------------------------------------------------- keyed upsert
NoPage == 0

\* A query that never finds a page.
find_page_never(st, key_val) == NoPage

find_page_by_key(st, key_val) ==
    IF \E p \in st : "Key" \in DOMAIN p.properties /\ p.properties["Key"] = rich(key_val)
    THEN (CHOOSE p \in st :
              "Key" \in DOMAIN p.properties /\ p.properties["Key"] = rich(key_val)).id
    ELSE NoPage

\* The entry of the payload literal under a name. The title entry comes first
\* in the literal, so a later entry of the same name replaces it; the Away Team
\* entry is there only when the title column is another one.
PayloadValue(row, name, sc) ==
    CASE name = "Key" -> rich(make_key(row["game_date"], row["away"], row["home"]))
      [] name = "Game Date" -> date_prop(row["game_date"])
      [] name = "Away Team" /\ sc.TITLE_PROP # "Away Team" -> rich(row["away"])
      [] name = "Home Team" -> rich(row["home"])
      [] name = "Start Time (ET)" -> rich(row["start_et"])
      [] name = "Away Pitcher" -> rich(row["away_p"])
      [] name = "Home Pitcher" -> rich(row["home_p"])
      [] name = "ML - Market Home" -> number(row["ml_home"])
      [] name = "ML - Market Away" -> number(row["ml_away"])
      [] name = "Total (Market)" -> number(row["total"])
      [] name = "Prediction - Moneyline" -> rich(row["pick_ml"])
      [] name = "Confidence (ML)" -> number(row["conf_ml"])
      [] name = "Prediction - Total" -> rich(row["pick_tot"])
      [] name = "Confidence (Total)" -> number(row["conf_tot"])
      [] name = "Prediction - Run Line" -> rich(row["pick_rl"])
      [] name = "Confidence (Run Line)" -> number(row["conf_rl"])
      [] name = "Box Score Link" -> url(row["box_link"])
      [] name = "Notes / Angle" -> rich(row["notes"])
      [] name = "Data Source(s)" -> rich(row["sources"])
      [] OTHER -> title_val(row["away"])

\* A payload that leaves out the properties whose value is empty.
PayloadNonEmpty(row, sc) ==
    LET names == ({sc.TITLE_PROP, "Key", "Game Date"} \cup OptionalProps
                    \cup (IF sc.TITLE_PROP # "Away Team" THEN {"Away Team"} ELSE {}))
                  \cap sc.props
    IN  [name \in {n \in names : PayloadValue(row, n, sc)[2] \notin {None, <<>>}}
            |-> PayloadValue(row, name, sc)]

\* The payload keeps the properties the schema knows; the rest are dropped.
Payload(row, sc) ==
    [name \in ({sc.TITLE_PROP, "Key", "Game Date"} \cup OptionalProps
                 \cup (IF sc.TITLE_PROP # "Away Team" THEN {"Away Team"} ELSE {}))
               \cap sc.props
        |-> PayloadValue(row, name, sc)]

\* pages.update overwrites the properties of the payload and keeps the others.
PageUpdate(old, payload) ==
    [name \in DOMAIN old \cup DOMAIN payload |->
        IF name \in DOMAIN payload THEN payload[name] ELSE old[name]]

\* An upsert that creates a page whatever the store holds.
upsert_create_only(st, nid, row, sc) ==
    [store |-> st \cup {[id |-> nid, properties |-> Payload(row, sc)]},
     id |-> nid, status |-> "created",
     key |-> make_key(row["game_date"], row["away"], row["home"])]

\* upsert_prediction_row on store st, nid being the id a created page gets.
upsert_prediction_row(st, nid, row, sc) ==
    LET key_val == make_key(row["game_date"], row["away"], row["home"])
        page_id == find_page_by_key(st, key_val)
        payload == Payload(row, sc)
    IN  IF page_id # NoPage
        THEN [store |-> {IF p.id = page_id
                         THEN [p EXCEPT !.properties = PageUpdate(p.properties, payload)]
                         ELSE p : p \in st},
              id |-> page_id, status |-> "updated", key |-> key_val]
        ELSE [store |-> st \cup {[id |-> nid, properties |-> payload]},
              id |-> nid, status |-> "created", key |-> key_val]

\* ------------------------------------------------------ schedule provider
Dates == {<<"D1">>, <<"D2">>}

AZ == <<"A","Z">>
SF == <<"S","F">>
ARI == <<"A","R","I">>

\* Raw game descriptors the schedule provider may return: a game, the second
\* game of a doubleheader between the same teams, and the return fixture.
GameSet ==
    { [gamePk |-> 1, away |-> ARI, home |-> SF, gameDate |-> <<"19:05">>,
       away_p |-> <<"Gallen">>, home_p |-> <<"Webb">>],
      [gamePk |-> 2, away |-> AZ, home |-> SF, gameDate |-> <<"22:05">>,
       away_p |-> <<>>, home_p |-> <<"Ray">>],
      [gamePk |-> 3, away |-> SF, home |-> AZ, gameDate |-> <<"19:40">>,
       away_p |-> <<"Webb">>, home_p |-> <<"Kelly">>] }

RECURSIVE SeqsUpTo(_, _)
SeqsUpTo(S, n) ==
    IF n = 0 THEN {<<>>}
    ELSE LET shorter == SeqsUpTo(S, n - 1)
         IN  shorter \cup {Append(q, e) : q \in {t \in shorter : Len(t) = n - 1}, e \in S}

\* A schedule lists a game once.
Schedules ==
    {g \in SeqsUpTo(GameSet, MaxGames) :
        \A i, j \in 1..Len(g) : i # j => g[i].gamePk # g[j].gamePk}

\* to_et_time_str: the start time rendered in US/Eastern, "" when absent.
to_et_time_str(game_datetime_iso) ==
    IF game_datetime_iso = <<>> \/ game_datetime_iso = None THEN <<>>
    ELSE <<"ET">> \o game_datetime_iso

SlateRowOf(g, game_date_iso) ==
    [game_date |-> game_date_iso,
     away |-> normalize_team(g.away),
     home |-> normalize_team(g.home),
     start_et |-> to_et_time_str(g.gameDate),
     away_p |-> g.away_p,
     home_p |-> g.home_p,
     box_link |-> IF g.gamePk = 0 THEN <<>> ELSE <<"gameday", g.gamePk>>,
     ml_home |-> None, ml_away |-> None, total |-> None,
     pick_ml |-> <<>>, conf_ml |-> None,
     pick_tot |-> <<>>, conf_tot |-> None,
     pick_rl |-> <<>>, conf_rl |-> None,
     notes |-> <<"Auto from MLB schedule - awaiting odds/model.">>,
     sources |-> <<"MLB Stats API">>]

fetch_todays_slate_from_mlb(schedule, game_date_iso) ==
    [i \in 1..Len(schedule) |-> SlateRowOf(schedule[i], game_date_iso)]

\* ----------------------------------------------------------- odds feed
OddsRow(gd, away, home, mlh, mla, tot, over, under) ==
    [Game_Date |-> gd, Away_Team |-> away, Home_Team |-> home,
     ML_Home |-> mlh, ML_Away |-> mla, Total |-> tot,
     Over_Price |-> over, Under_Price |-> under]

OddsRowSet ==
    { OddsRow(<<"D1">>, <<" ","a","r","i">>, SF,
              NumCell(-150), NumCell(130), NumCell(85), NumCell(-125), NumCell(105)),
      OddsRow(<<"D1">>, AZ, SF,
              NumCell(120), NumCell(-140), BadCell, <<>>, None),
      OddsRow(<<"D1">>, AZ, SF,
              BadCell, NumCell(-140), NumCell(90), NumCell(-110), NumCell(-110)),
      OddsRow(<<"D1">>, AZ, <<>>,
              NumCell(-120), NumCell(100), NumCell(80), NumCell(-110), NumCell(-110)),
      OddsRow(<<"D1">>, SF, AZ,
              NumCell(-250), NumCell(210), NumCell(75), BadCell, NumCell(-350)) }

\* The odds file named on the command line: absent, or up to MaxOddsRows of
\* these rows, in any order.
OddsFiles ==
    {NoFile} \cup
    {FileOf(f) : f \in {g \in SeqsUpTo(OddsRowSet, MaxOddsRows) :
                            \A i, j \in 1..Len(g) : i # j => g[i] # g[j]}}

\* ------------------------------------------------- ordered dictionaries
\* A Python dict as the sequence of its <<key, value>> items in insertion order.
DictHas(d, k) == \E i \in 1..Len(d) : d[i][1] = k

\* d.get(k): <<>> for None, else the 1-tuple of the value.
DictGet(d, k) ==
    IF DictHas(d, k) THEN <<d[CHOOSE i \in 1..Len(d) : d[i][1] = k][2]>> ELSE <<>>

DictSet(d, k, v) ==
    IF DictHas(d, k)
    THEN [i \in 1..Len(d) |-> IF d[i][1] = k THEN <<k, v>> ELSE d[i]]
    ELSE Append(d, <<k, v>>)

OrEmpty(c) == IF c = None THEN <<>> ELSE c

\* ------------------------------------------------------- slate loading
SlateRowFromCsv(r) ==
    [game_date |-> Strip(OrEmpty(r["game_date"])),
     away |-> normalize_team(Strip(OrEmpty(r["away"]))),
     home |-> normalize_team(Strip(OrEmpty(r["home"]))),
     start_et |-> OrEmpty(r["start_et"]),
     away_p |-> OrEmpty(r["away_p"]),
     home_p |-> OrEmpty(r["home_p"]),
     box_link |-> OrEmpty(r["box_link"]),
     ml_home |-> None, ml_away |-> None, total |-> None,
     pick_ml |-> <<>>, conf_ml |-> None,
     pick_tot |-> <<>>, conf_tot |-> None,
     pick_rl |-> <<>>, conf_rl |-> None,
     notes |-> <<"Joined slate + odds">>,
     sources |-> <<"MLB Stats API + Odds CSV">>]

LoadSlateRows(file) == [i \in 1..Len(file) |-> SlateRowFromCsv(file[i])]

RowKey(r) == make_key(r["game_date"], r["away"], r["home"])

RECURSIVE SlateByKey(_, _)
SlateByKey(slate_rows, d) ==
    IF slate_rows = <<>> THEN d
    ELSE SlateByKey(Tail(slate_rows),
                    DictSet(d, RowKey(Head(slate_rows)), Head(slate_rows)))

\* -------------------------------------------------------- odds loading
\* A loader that drops a row on any numeric cell that does not parse.
OddsEntryStrict(r) ==
    LET gd == Strip(OrEmpty(r.Game_Date))
        away == normalize_team(Strip(OrEmpty(r.Away_Team)))
        home == normalize_team(Strip(OrEmpty(r.Home_Team)))
        priced(c) == c # None /\ c # <<>>
        price(c) == IF priced(c) THEN c[2] ELSE -110
    IN  IF gd = <<>> \/ away = <<>> \/ home = <<>> THEN <<>>
        ELSE IF ~(ParseOk(r.ML_Home) /\ ParseOk(r.ML_Away) /\ ParseOk(r.Total)) THEN <<>>
        ELSE IF (priced(r.Over_Price) /\ ~ParseOk(r.Over_Price))
                \/ (priced(r.Under_Price) /\ ~ParseOk(r.Under_Price)) THEN <<>>
        ELSE <<make_key(gd, away, home),
               [ml_home |-> r.ML_Home[2], ml_away |-> r.ML_Away[2],
                total |-> Num(r.Total[2]),
                over_price |-> price(r.Over_Price),
                under_price |-> price(r.Under_Price)]>>

\* One odds row: <<>> when the row is skipped, else <<key, odds>>.
OddsEntry(r) ==
    LET gd == Strip(OrEmpty(r.Game_Date))
        away == normalize_team(Strip(OrEmpty(r.Away_Team)))
        home == normalize_team(Strip(OrEmpty(r.Home_Team)))
        priced(c) == c # None /\ c # <<>>
        pricesOk == (priced(r.Over_Price) => ParseOk(r.Over_Price))
                    /\ (priced(r.Under_Price) => ParseOk(r.Under_Price))
        price(c) == IF pricesOk /\ priced(c) THEN c[2] ELSE -110
    IN  IF gd = <<>> \/ away = <<>> \/ home = <<>> THEN <<>>
        ELSE IF ~(ParseOk(r.ML_Home) /\ ParseOk(r.ML_Away)) THEN <<>>
        ELSE <<make_key(gd, away, home),
               [ml_home |-> r.ML_Home[2], ml_away |-> r.ML_Away[2],
                total |-> IF ParseOk(r.Total) THEN Num(r.Total[2]) ELSE None,
                over_price |-> price(r.Over_Price),
                under_price |-> price(r.Under_Price)]>>

RECURSIVE OddsByKey(_, _)
OddsByKey(file, d) ==
    IF file = <<>> THEN d
    ELSE LET e == OddsEntry(Head(file))
         IN  OddsByKey(Tail(file), IF e = <<>> THEN d ELSE DictSet(d, e[1], e[2]))

\* ------------------------------------------------------------- the join
\* A loop driven by the slate and by every odds key the slate lacks.
DriveRowsAllKeys(sbk, obk) ==
    LET stray == SelectSeq(obk, LAMBDA e : ~DictHas(sbk, e[1]))
        bars(key) == {i \in 1..Len(key) : key[i] = "|"}
        first(key) == CHOOSE i \in bars(key) : \A j \in bars(key) : i <= j
        last(key) == CHOOSE i \in bars(key) : \A j \in bars(key) : j <= i
        base(key) == SlateRowFromCsv(
                        [k \in FieldSet |->
                            CASE k = "game_date" -> SubSeq(key, 1, first(key) - 1)
                              [] k = "away" -> SubSeq(key, first(key) + 1, last(key) - 1)
                              [] k = "home" -> SubSeq(key, last(key) + 1, Len(key))
                              [] OTHER -> <<>>])
    IN  sbk \o [i \in 1..Len(stray) |-> <<stray[i][1], base(stray[i][1])>>]

\* The <<key, base>> items the update loop visits: the slate's and only those.
DriveRows(sbk, obk) == sbk

\* The row of one slate game; found is odds_by_key.get(key), ties the sides
\* its three derivations land on. The run line computes the favourite's
\* probability anew, by the same operations on the same prices: above 0.62 its
\* score is the double the moneyline rounded.
JoinRow(base, found, ties) ==
    IF found = <<>> THEN base
    ELSE
      LET odds == found[1]
          ml == pick_moneyline_from_market(odds.ml_home, odds.ml_away, ties.ml)
          tot == IF odds.total # None
                 THEN pick_total_from_market(odds.total[2], odds.over_price,
                                             odds.under_price, ties.tot)
                 ELSE <<NoEdge, 2>>
          nv == remove_vig(american_to_implied(odds.ml_home),
                           american_to_implied(odds.ml_away))
          fav == FMax(nv[1], nv[2])
          rl == pick_runline_from_market(
                    fav, IF FLt(<<62, 100>>, fav) THEN ties.ml ELSE ties.rl)
          homeFav == ~FLt(nv[1], nv[2])
          rl_str == IF rl[1] = "FAV -1.5" /\ homeFav
                    THEN Str(base["home"]) \o <<" ", "-", "1", ".", "5">>
                    ELSE IF rl[1] = "FAV -1.5"
                    THEN Str(base["away"]) \o <<" ", "-", "1", ".", "5">>
                    ELSE IF homeFav
                    THEN Str(base["away"]) \o <<" ", "+", "1", ".", "5">>
                    ELSE Str(base["home"]) \o <<" ", "+", "1", ".", "5">>
      IN  [k \in DOMAIN base |->
             CASE k = "ml_home" -> Num(odds.ml_home)
               [] k = "ml_away" -> Num(odds.ml_away)
               [] k = "total" -> odds.total
               [] k = "pick_ml" -> IF ml[1] = "HOME ML"
                                   THEN Str(base["home"]) \o <<" ", "M", "L">>
                                   ELSE Str(base["away"]) \o <<" ", "M", "L">>
               [] k = "conf_ml" -> Num(ml[2])
               [] k = "pick_tot" -> tot[1]
               [] k = "conf_tot" -> Num(tot[2])
               [] k = "pick_rl" -> rl_str
               [] k = "conf_rl" -> Num(rl[2])
               [] OTHER -> base[k]]

\* ------------------------------------------------------------- state
VARIABLES
    today,          \* date.today().isoformat()
    slateFile,      \* slate_<date>.csv per date, the one file read back
    store,          \* the Notion database: a set of pages
    nextId,         \* the id the next created page gets
    schema,         \* props and TITLE_PROP found at start-up
    tie,            \* the side each computation that met a boundary landed on
    pc,             \* idle, daily, odds, done, aborted, error
    games,          \* run_daily: the fetched rows
    slate_by_key,   \* ingest: the slate keyed by Game Key
    odds_by_key,    \* ingest: the usable odds keyed by Game Key
    pos,            \* index of the next record of the loop
    updated_rows,   \* ingest: rows written to the joined snapshot
    trace,          \* what the run did, in order: files read and written
                    \* (predictions_<date>.csv with its rows), upserts, exit
    lastWrite,      \* history: per Game Key, the kind of its latest upsert and
                    \* whether an earlier one carried matched odds
    oddsCsv,        \* history: the rows of the odds file the ingest read
    cur,            \* history: the running run, its inputs and starting store
    prev,           \* history: the run that ended last
    call,           \* a direct call of a pure function: its arguments
    ret             \* and its result

persistent == <<today, slateFile, store, nextId, schema, tie>>
runlocal == <<pc, games, slate_by_key, odds_by_key, pos, updated_rows, trace>>
vars == <<persistent, runlocal, lastWrite, oddsCsv, cur, prev, call, ret>>

\* No check of the snapshot before it is opened.
SlateExistsUnchecked(files, d) == TRUE

SlateExists(files, d) == files[d].exists

SlateNotFound(d) == <<"Slate file not found", d>>

\* write_csv(updated_rows, predictions_<date>.csv) as the run's trace shows it:
\* the file is written, with these rows, unless there are none.
WroteCsv(rows, d) ==
    LET f == write_csv(rows, NoFile)
    IN  IF f.exists THEN <<<<"write", "predictions", d, f.rows>>>> ELSE <<>>

\* The history of a Game Key: whether an upsert before the latest one carried
\* matched odds, and the kind of the latest one.
Noted(d, k, w) ==
    LET old == DictGet(d, k)
        filled == old # <<>> /\ (old[1][1] \/ old[1][2] \in {"odds, matched",
                                                           "odds, matched, no total"})
    IN  DictSet(d, k, <<filled, w>>)

\* ------------------------------------------------------------ daily run
\* A later reading of the clock in the same run: the same day or the next.
ClockFrom(d) == IF d = <<"D1">> THEN Dates ELSE {d}

\* run_daily up to its loop: the date asked of the schedule (today), the fetch,
\* the early return, and the slate snapshot named after the clock read anew.
StartDaily(schedule, clock) ==
    /\ pc = "idle"
    /\ clock \in ClockFrom(today)
    /\ LET rows == fetch_todays_slate_from_mlb(schedule, today)
       IN  /\ games' = rows
           /\ today' = IF rows = <<>> THEN today ELSE clock
           /\ slateFile' = [slateFile EXCEPT ![clock] = write_csv(rows, @)]
           /\ pc' = IF rows = <<>> THEN "done" ELSE "daily"
           /\ trace' = IF rows = <<>> THEN <<<<"no games">>>>
                       ELSE <<<<"write", "slate", clock>>>>
    /\ pos' = 1
    /\ UNCHANGED <<store, nextId, schema, tie, slate_by_key,
                   odds_by_key, updated_rows, lastWrite>>

\* The schedule provider is unreachable or answers with an error.
FetchFail ==
    /\ pc = "idle"
    /\ pc' = "error"
    /\ trace' = <<<<"exit", <<"schedule provider">>>>>>
    /\ UNCHANGED <<persistent, games, slate_by_key, odds_by_key, pos, updated_rows,
                   lastWrite>>

\* One turn of run_daily's loop.
DailyStep ==
    /\ pc = "daily"
    /\ pos <= Len(games)
    /\ LET u == upsert_prediction_row(store, nextId, games[pos], schema)
       IN  /\ store' = u.store
           /\ nextId' = IF u.status = "created" THEN nextId + 1 ELSE nextId
           /\ trace' = Append(trace, <<"upsert", u.status, u.key, u.id>>)
    /\ pos' = pos + 1
    /\ pc' = IF pos = Len(games) THEN "done" ELSE "daily"
    /\ UNCHANGED <<today, slateFile, schema, tie, games, slate_by_key,
                   odds_by_key, updated_rows>>

\* ------------------------------------------------------- odds-ingest run
\* ingest_odds_and_compute_picks without a slate snapshot for today.
StartOddsNoSlate(file) ==
    /\ pc = "idle"
    /\ ~SlateExists(slateFile, today)
    /\ pc' = "error"
    /\ trace' = <<<<"exit", SlateNotFound(today)>>>>
    /\ UNCHANGED <<persistent, games, slate_by_key, odds_by_key, pos, updated_rows,
                   lastWrite>>

\* ingest_odds_and_compute_picks up to its loop: both files are loaded.
StartOdds(file) ==
    /\ pc = "idle"
    /\ SlateExists(slateFile, today)
    /\ pos' = 1
    /\ IF ~slateFile[today].exists
       THEN \* open() of the missing snapshot raises
            /\ pc' = "error"
            /\ trace' = <<<<"exit", <<"FileNotFoundError", "slate", today>>>>>>
            /\ UNCHANGED <<slate_by_key, odds_by_key>>
       ELSE LET sbk == SlateByKey(LoadSlateRows(slateFile[today].rows), <<>>)
                obk == OddsByKey(file.rows, <<>>)
                items == DriveRows(sbk, obk)
            IN  IF ~file.exists
                THEN \* the slate is loaded, then open() of the odds file raises
                     /\ slate_by_key' = sbk
                     /\ odds_by_key' = <<>>
                     /\ pc' = "error"
                     /\ trace' = <<<<"read", "slate", today>>,
                                   <<"exit", <<"FileNotFoundError", "odds">>>>>>
                ELSE /\ slate_by_key' = items
                     /\ odds_by_key' = obk
                     /\ pc' = IF items = <<>> THEN "done" ELSE "odds"
                     /\ trace' = <<<<"read", "slate", today>>, <<"read", "odds">>>>
                                 \o WroteCsv(<<>>, today)
    /\ UNCHANGED <<persistent, games, updated_rows, lastWrite>>

\* One turn of the update loop; after the last one the joined snapshot is written.
OddsStep ==
    /\ pc = "odds"
    /\ pos <= Len(slate_by_key)
    /\ \E landed \in IF DictGet(odds_by_key, slate_by_key[pos][1]) = <<>> THEN {tie}
                      ELSE Landings(tie, DictGet(odds_by_key, slate_by_key[pos][1])[1]) :
       LET key == slate_by_key[pos][1]
           base == slate_by_key[pos][2]
           found == DictGet(odds_by_key, key)
           row == JoinRow(base, found,
                          IF found = <<>> THEN <<>> ELSE TiesOf(landed, found[1]))
           u == upsert_prediction_row(store, nextId, row, schema)
           rows == Append(updated_rows, row)
           last == pos = Len(slate_by_key)
       IN  /\ tie' = landed
           /\ store' = u.store
           /\ nextId' = IF u.status = "created" THEN nextId + 1 ELSE nextId
           /\ updated_rows' = rows
           /\ trace' = Append(trace, <<"upsert", u.status, u.key, u.id>>)
                       \o (IF last THEN WroteCsv(rows, today) ELSE <<>>)
           /\ pc' = IF last THEN "done" ELSE "odds"
    /\ pos' = pos + 1
    /\ UNCHANGED <<today, slateFile, schema, games, slate_by_key, odds_by_key>>

\* ------------------------------------------------------------ failures
\* A Notion call of the record at pos raises: the run stops there.
StoreFail ==
    /\ pc \in {"daily", "odds"}
    /\ pc' = "aborted"
    /\ trace' = Append(trace, <<"exception", pos>>)
    /\ UNCHANGED <<persistent, games, slate_by_key, odds_by_key, pos, updated_rows,
                   lastWrite>>

\* The process ends; the next invocation starts from the files and the store.
Exit ==
    /\ pc \in {"done", "aborted", "error"}
    /\ pc' = "idle"
    /\ games' = <<>>
    /\ slate_by_key' = <<>>
    /\ odds_by_key' = <<>>
    /\ pos' = 1
    /\ updated_rows' = <<>>
    /\ trace' = <<>>
    /\ UNCHANGED <<persistent, lastWrite>>

NextDay ==
    /\ pc = "idle"
    /\ today = <<"D1">>
    /\ today' = <<"D2">>
    /\ UNCHANGED <<slateFile, store, nextId, schema, tie, runlocal, lastWrite>>

\* ----------------------------------------------- the pipeline, run after run
NoRun == [kind |-> "none"]

Idle ==
    /\ pc = "idle"
    /\ games = <<>>
    /\ slate_by_key = <<>>
    /\ odds_by_key = <<>>
    /\ pos = 1
    /\ updated_rows = <<>>
    /\ trace = <<>>
    /\ lastWrite = <<>>
    /\ oddsCsv = <<>>
    /\ cur = NoRun
    /\ prev = NoRun
    /\ call = [fn |-> "none"]
    /\ ret = <<>>

\* The pipeline at rest, for the direct calls of the pure functions.
Parked ==
    /\ today = <<"D1">>
    /\ slateFile = [d \in Dates |-> NoFile]
    /\ store = {}
    /\ nextId = 1
    /\ schema = FullSchema
    /\ tie = <<>>
    /\ Idle

\* After start-up: no snapshot yet, an empty database.
Init ==
    /\ today = <<"D1">>
    /\ slateFile = [d \in Dates |-> NoFile]
    /\ store = {}
    /\ nextId = 1
    /\ schema \in Schemas
    /\ tie = <<>>
    /\ Idle

Untracked == UNCHANGED <<oddsCsv, cur, prev, call, ret>>

\* The history of the Game Key that the step of a loop upserts.
NotedDaily == lastWrite' = Noted(lastWrite, RowKey(games[pos]), "daily")

NotedOdds ==
    LET found == DictGet(odds_by_key, slate_by_key[pos][1])
    IN  lastWrite' = Noted(lastWrite, slate_by_key[pos][1],
                           IF found = <<>> THEN "odds, none"
                           ELSE IF found[1].total = None
                                THEN "odds, matched, no total"
                                ELSE "odds, matched")

Unnoted == UNCHANGED <<lastWrite, oddsCsv, cur, prev, call, ret>>

Next ==
    \/ \E schedule \in Schedules : StartDaily(schedule, today) /\ Untracked
    \/ FetchFail /\ Untracked
    \/ DailyStep /\ NotedDaily /\ Untracked
    \/ \E file \in OddsFiles : StartOddsNoSlate(file) /\ Untracked
    \/ \E file \in OddsFiles : StartOdds(file) /\ Untracked
    \/ OddsStep /\ NotedOdds /\ Untracked
    \/ StoreFail /\ Untracked
    \/ Exit /\ Untracked

Spec == Init /\ [][Next]_vars

\* --------------------------------------- one ingest over a day's snapshot
\* The loop of a run carried out in full on store st.
RECURSIVE RunRows(_, _, _, _)
RunRows(st, nid, rows, sc) ==
    IF rows = <<>> THEN [store |-> st, nextId |-> nid]
    ELSE LET u == upsert_prediction_row(st, nid, Head(rows), sc)
         IN  RunRows(u.store, IF u.status = "created" THEN nid + 1 ELSE nid,
                     Tail(rows), sc)

\* A daily run for D1 has ended: it found no games, or it wrote the snapshot
\* (named after the day its second reading of the clock gave) and upserted its
\* records, all of them or those before a failure of the store.
AfterDaily ==
    /\ schema \in Schemas
    /\ tie = <<>>
    /\ \E schedule \in Schedules, clock \in Dates :
         LET rows == fetch_todays_slate_from_mlb(schedule, <<"D1">>)
         IN  /\ today = IF rows = <<>> THEN <<"D1">> ELSE clock
             /\ slateFile = [d \in Dates |->
                               IF d = clock THEN write_csv(rows, NoFile) ELSE NoFile]
             /\ \E n \in 0..Len(rows) :
                   LET ran == RunRows({}, 1, SubSeq(rows, 1, n), schema)
                   IN  store = ran.store /\ nextId = ran.nextId
    /\ Idle

\* The daily runs, each of which may pass midnight between its two readings
\* of the clock, and the ingests of two days.
InitJoin == Init

\* The answers of the schedule provider on these days: the games at SF, one of
\* them or the doubleheader. The return fixture is on no slate, so an odds row
\* quoted for it matches no entry.
JoinSchedules == {g \in Schedules : \A i \in 1..Len(g) : g[i].home = SF}

\* The history of an ingest: that it was asked for, and the odds rows it read.
Asked(file) ==
    /\ cur' = [kind |-> "odds", input |-> file]
    /\ oddsCsv' = IF pc' \in {"odds", "done"} THEN file.rows ELSE <<>>
    /\ UNCHANGED <<prev, call, ret>>

Forget ==
    /\ cur' = NoRun
    /\ oddsCsv' = <<>>
    /\ UNCHANGED <<prev, call, ret>>

NextJoin ==
    \/ \E schedule \in JoinSchedules, clock \in Dates :
         StartDaily(schedule, clock) /\ Untracked
    \/ DailyStep /\ Unnoted
    \/ \E file \in OddsFiles : StartOddsNoSlate(file) /\ Asked(file)
    \/ \E file \in OddsFiles : StartOdds(file) /\ Asked(file)
    \/ OddsStep /\ Unnoted
    \/ StoreFail /\ Untracked
    \/ Exit /\ Forget
    \/ NextDay /\ Untracked

SpecJoin == InitJoin /\ [][NextJoin]_vars

\* ------------------------------------- the ingests after one daily run
\* The slate is that of any schedule, the return fixture next to a game at SF
\* among them, so that one ingest joins odds rows onto two Game Keys.
InitIngest == AfterDaily

\* An odds file with one row of each kind of parse failure: a total that does
\* not parse, a moneyline that does not parse, and an over price that does not
\* parse next to an under price that does.
DegradedFile ==
    FileOf(<<OddsRow(<<"D1">>, AZ, SF,
                     NumCell(120), NumCell(-140), BadCell, <<>>, None),
             OddsRow(<<"D1">>, AZ, SF,
                     BadCell, NumCell(-140), NumCell(90), NumCell(-110), NumCell(-110)),
             OddsRow(<<"D1">>, SF, AZ,
                     NumCell(-250), NumCell(210), NumCell(75), BadCell, NumCell(-350))>>)

\* The odds files named on the command line in these runs.
IngestFiles == OddsFiles \cup {DegradedFile}

NextIngest ==
    \/ \E file \in IngestFiles : StartOddsNoSlate(file) /\ Asked(file)
    \/ \E file \in IngestFiles : StartOdds(file) /\ Asked(file)
    \/ OddsStep /\ Unnoted
    \/ StoreFail /\ Untracked
    \/ Exit /\ Forget

SpecIngest == InitIngest /\ [][NextIngest]_vars

\* ------------------------------------------------- a run and its reruns
InitRetry == AfterDaily

\* Only the first run is free; every later one repeats it with the same inputs.
Rerun(kind, input) ==
    /\ prev.kind = "none" \/ (prev.kind = kind /\ prev.input = input)
    /\ LET same == prev.kind = kind
           resumed == same /\ prev.outcome = "aborted"
       IN  cur' = [kind |-> kind, input |-> input,
                   start |-> store, startId |-> nextId,
                   base |-> IF resumed THEN prev.base ELSE store,
                   baseId |-> IF resumed THEN prev.baseId ELSE nextId,
                   chain |-> IF same THEN prev.outcome ELSE "fresh"]
    /\ UNCHANGED <<oddsCsv, prev, call, ret>>

Ended ==
    /\ prev' = [kind |-> cur.kind, input |-> cur.input, outcome |-> pc,
                base |-> cur.base, baseId |-> cur.baseId]
    /\ cur' = NoRun
    /\ UNCHANGED <<oddsCsv, call, ret>>

\* An odds file whose quote has a moneyline score of exactly 7.5 (the no-vig
\* probability of -250/160 is 0.65): its rounding may land on either side, and
\* lands on the same side in every run.
BoundaryFile ==
    FileOf(<<OddsRow(<<"D1">>, AZ, SF, NumCell(-250), NumCell(160), NumCell(75),
                     NumCell(-110), NumCell(-110))>>)

\* The odds files of the runs that are repeated: absent, or up to MaxRetryRows
\* rows, or the boundary quote.
RetryFiles == {f \in OddsFiles : Len(f.rows) <= MaxRetryRows} \cup {BoundaryFile}

NextRetry ==
    \/ \E schedule \in Schedules : Rerun("daily", schedule) /\ StartDaily(schedule, today)
    \/ \E file \in RetryFiles : Rerun("odds", file) /\ StartOdds(file)
    \/ DailyStep /\ Unnoted
    \/ OddsStep /\ Unnoted
    \/ StoreFail /\ Untracked
    \/ Exit /\ Ended

SpecRetry == InitRetry /\ [][NextRetry]_vars
\* ------------------------------------------- the odds math, called directly
Prices == {-400, -300, -250, -150, -110, -100, 0, 75, 100, 130, 160, 210, 300}
TotalPrices == {-350, -125, -110, 100, 105}

\* A slate row to join a quote onto.
BaseRow ==
    SlateRowFromCsv(CsvRow(SlateRowOf(CHOOSE g \in GameSet : g.gamePk = 1, <<"D1">>)))

Quote(h, a, tot, o, u) ==
    [ml_home |-> h, ml_away |-> a, total |-> tot, over_price |-> o, under_price |-> u]

InitMath == Parked

CallEdge(e, t) ==
    /\ call' = [fn |-> "edge_to_conf_1_10", edge_prob |-> Frac(e, 100), tie |-> t]
    /\ ret' = edge_to_conf_1_10(Frac(e, 100), t)

CallRunline(p, t) ==
    /\ call' = [fn |-> "pick_runline_from_market", fav_prob_nv |-> Frac(p, 100),
                tie |-> t]
    /\ ret' = pick_runline_from_market(Frac(p, 100), t)

CallMoneyline(h, a, t) ==
    /\ call' = [fn |-> "pick_moneyline_from_market", ml_home |-> h, ml_away |-> a,
                tie |-> t]
    /\ ret' = pick_moneyline_from_market(h, a, t)

CallTotal(o, u, t) ==
    /\ call' = [fn |-> "pick_total_from_market", total_num |-> 85,
                over_price |-> o, under_price |-> u, tie |-> t]
    /\ ret' = pick_total_from_market(85, o, u, t)

\* The three derivations of the update loop on one quote, each landing on its
\* own side where it meets a boundary.
CallJoin(q, landed) ==
    /\ landed \in Landings(<<>>, q)
    /\ call' = [fn |-> "JoinRow", odds |-> q, ties |-> TiesOf(landed, q)]
    /\ ret' = JoinRow(BaseRow, <<q>>, TiesOf(landed, q))

\* No call is in progress.
Ready == call.fn = "none"

PipelineParked ==
    UNCHANGED <<today, slateFile, store, nextId, schema, tie, runlocal, lastWrite,
                oddsCsv, cur, prev>>

\* The call returns; the next one starts afresh.
Return ==
    /\ call.fn # "none"
    /\ call' = [fn |-> "none"]
    /\ ret' = <<>>

NextMath ==
    \/ Ready /\ \E e \in (-MaxEdgePct)..MaxEdgePct, t \in Tie :
                  CallEdge(e, t) /\ PipelineParked
    \/ Ready /\ \E p \in 50..100, t \in Tie : CallRunline(p, t) /\ PipelineParked
    \/ Ready /\ \E h \in Prices, a \in Prices, t \in Tie :
                  CallMoneyline(h, a, t) /\ PipelineParked
    \/ Ready /\ \E o \in Prices, u \in Prices, t \in Tie :
                  CallTotal(o, u, t) /\ PipelineParked
    \/ Ready /\ \E h \in Prices, a \in Prices, tot \in {None, Num(85)},
                  o \in TotalPrices, u \in TotalPrices :
                    \E landed \in Landings(<<>>, Quote(h, a, tot, o, u)) :
                        CallJoin(Quote(h, a, tot, o, u), landed) /\ PipelineParked
    \/ Return /\ PipelineParked

SpecMath == InitMath /\ [][NextMath]_vars

\* -------------------------------------- team normalization, called directly
\* Letters of AZ and its alias ARI in both cases, a blank, a tab, the no-break
\* space and the sharp s, whose capital is two letters.
Alphabet == {"A", "R", "I", "Z", "a", "r", " ", "\t", "<U+00A0>", "<U+00DF>"}

Codes == SeqsUpTo(Alphabet, MaxCodeLen) \cup {None}

HomeCodes == {SF, <<"s", "f", " ">>, None}

InitNorm == Parked

CallNormalize(t) ==
    /\ call' = [fn |-> "normalize_team", t |-> t]
    /\ ret' = normalize_team(t)

\* The Game Key of one game as the daily run upserts it, and as the ingest
\* rebuilds it from the snapshot the daily run wrote.
CallKeys(away, home) ==
    LET g == [gamePk |-> 1, away |-> away, home |-> home, gameDate |-> <<"19:05">>,
              away_p |-> <<>>, home_p |-> <<>>]
        row == SlateRowOf(g, <<"D1">>)
        file == write_csv(<<row>>, NoFile)
    IN  /\ call' = [fn |-> "keys", away |-> away, home |-> home]
        /\ ret' = [daily |-> RowKey(row),
                   ingest |-> RowKey(LoadSlateRows(file.rows)[1])]

NextNorm ==
    \/ Ready /\ \E t \in Codes : CallNormalize(t) /\ PipelineParked
    \/ Ready /\ \E away \in Codes, home \in HomeCodes :
                  CallKeys(away, home) /\ PipelineParked
    \/ Return /\ PipelineParked

SpecNorm == InitNorm /\ [][NextNorm]_vars
\* ======================================================== the odds math
\* The confidences of a joined row, as numbers.
Confidences(row) == {row["conf_ml"][2], row["conf_tot"][2], row["conf_rl"][2]}

\* C7, as the specification states it: edge_to_conf_1_10 returns 3 for edge 0
\* and 10 for every edge of 0.15 or more, and the run-line pick for a favourite
\* no-vig probability of 0.65 is the favourite side with confidence 10.
C7_AsStated ==
    /\ (call.fn = "edge_to_conf_1_10" /\ call.edge_prob = <<0, 1>>) => ret = 3
    /\ (call.fn = "edge_to_conf_1_10" /\ ~FLt(call.edge_prob, <<15, 100>>)) => ret = 10
    /\ (call.fn = "pick_runline_from_market" /\ call.fav_prob_nv = Frac(65, 100))
          => ret = <<"FAV -1.5", 10>>

\* C8: every confidence a derivation produces is an integer in 1..10: the
\* moneyline's, the total's (the fixed 2 of No Edge included), the run line's
\* (the discounted underdog value included), called directly or by the join.
C8_ConfidenceInRange ==
    /\ call.fn = "edge_to_conf_1_10" => ret \in 1..10
    /\ call.fn = "pick_moneyline_from_market" => ret[2] \in 1..10
    /\ call.fn = "pick_total_from_market" => ret[2] \in 1..10
    /\ call.fn = "pick_runline_from_market" => ret[2] \in 1..10
    /\ call.fn = "JoinRow" => Confidences(ret) \subseteq 1..10

\* A heavy favourite without a total: the moneyline saturates at 10, the total
\* is the fixed No Edge 2, the run line is the favourite's.
C8_Witness ==
    /\ call.fn = "JoinRow"
    /\ call.odds.ml_home = -300 /\ call.odds.ml_away = 300
    /\ call.odds.total = None
    /\ ret["conf_ml"] = Num(10)
    /\ ret["pick_tot"] = NoEdge /\ ret["conf_tot"] = Num(2)
    /\ ret["pick_rl"] = <<"S", "F", " ", "-", "1", ".", "5">>

\* ================================================== team normalization
\* C9: normalize_team is idempotent on every code, and the Game Key the daily
\* run builds for a slate entry equals the key the ingest rebuilds from the
\* snapshot row of that entry, whenever the schedule gave both team codes.
C9_NormalizeIdempotent ==
    /\ call.fn = "normalize_team" => normalize_team(ret) = ret
    /\ (call.fn = "keys" /\ call.away # None /\ call.home # None)
          => ret.daily = ret.ingest

\* A game whose codes needed trimming, upper-casing and the alias table.
C9_Witness ==
    /\ call.fn = "keys"
    /\ call.away = <<"<U+00A0>", "a", "r", "I">>
    /\ call.home = <<"s", "f", " ">>
    /\ ret.daily = <<"D1", "|", "A", "Z", "|", "S", "F">>
    /\ ret.ingest = ret.daily

\* ========================================================== the join
\* The Game Keys of the snapshot the ingest loads.
SlateKeys ==
    {RowKey(SlateRowFromCsv(slateFile[today].rows[i])) :
        i \in 1..Len(slateFile[today].rows)}

\* The Game Key an odds row carries, whether or not the row is usable.
OddsKey(r) ==
    make_key(Strip(OrEmpty(r.Game_Date)),
             normalize_team(Strip(OrEmpty(r.Away_Team))),
             normalize_team(Strip(OrEmpty(r.Home_Team))))

Keyed(r) ==
    /\ Strip(OrEmpty(r.Game_Date)) # <<>>
    /\ normalize_team(Strip(OrEmpty(r.Away_Team))) # <<>>
    /\ normalize_team(Strip(OrEmpty(r.Home_Team))) # <<>>

\* A row the loader keeps: keyed, with two moneylines that parse.
Usable(r) == Keyed(r) /\ ParseOk(r.ML_Home) /\ ParseOk(r.ML_Away)

\* A row with a numeric cell that float() rejects.
ParseFailure(r) ==
    \/ ~ParseOk(r.ML_Home) \/ ~ParseOk(r.ML_Away) \/ ~ParseOk(r.Total)
    \/ (r.Over_Price # None /\ r.Over_Price # <<>> /\ ~ParseOk(r.Over_Price))
    \/ (r.Under_Price # None /\ r.Under_Price # <<>> /\ ~ParseOk(r.Under_Price))

\* A row with an over or under price that is given and that float() rejects.
PriceFailure(r) ==
    \/ (r.Over_Price # None /\ r.Over_Price # <<>> /\ ~ParseOk(r.Over_Price))
    \/ (r.Under_Price # None /\ r.Under_Price # <<>> /\ ~ParseOk(r.Under_Price))

EmptyMarket(row) ==
    /\ row["ml_home"] = None /\ row["ml_away"] = None /\ row["total"] = None
    /\ row["pick_ml"] = <<>> /\ row["pick_tot"] = <<>> /\ row["pick_rl"] = <<>>
    /\ row["conf_ml"] = None /\ row["conf_tot"] = None /\ row["conf_rl"] = None

\* The rows of the joined snapshot the run wrote, if it wrote one.
WrittenRows ==
    LET w == SelectSeq(trace, LAMBDA e : e[1] = "write" /\ e[2] = "predictions")
    IN  IF w = <<>> THEN <<>> ELSE w[1][4]

UpsertedKeys ==
    {trace[i][3] : i \in {j \in 1..Len(trace) : trace[j][1] = "upsert"}}

\* C2: in an ingest, every record upserted or written to the joined snapshot
\* has the Game Key of an entry of the loaded slate snapshot; an odds row whose
\* key matches no slate entry causes neither.
C2_NoStrayRows ==
    cur.kind = "odds" =>
        /\ UpsertedKeys \subseteq SlateKeys
        /\ \A i \in 1..Len(updated_rows) : RowKey(updated_rows[i]) \in SlateKeys
        /\ \A i \in 1..Len(WrittenRows) :
              make_key(WrittenRows[i]["game_date"], WrittenRows[i]["away"],
                       WrittenRows[i]["home"]) \in SlateKeys

\* A finished ingest whose odds file held a usable row for a game the slate
\* lacks (the return fixture of a slate game among them).
C2_Witness ==
    /\ pc = "done" /\ cur.kind = "odds"
    /\ WrittenRows # <<>>
    /\ \E i \in 1..Len(oddsCsv) :
          /\ Usable(oddsCsv[i])
          /\ OddsKey(oddsCsv[i]) \notin SlateKeys
          /\ DictHas(odds_by_key, OddsKey(oddsCsv[i]))
          /\ make_key(Strip(OrEmpty(oddsCsv[i].Game_Date)),
                      normalize_team(Strip(OrEmpty(oddsCsv[i].Home_Team))),
                      normalize_team(Strip(OrEmpty(oddsCsv[i].Away_Team))))
                \in SlateKeys

\* C5: an ingest started without a slate snapshot for today ends at once with
\* the error that names the snapshot, before it reads the odds file, upserts or
\* writes; the store and the files are as they were.
C5_FailFast ==
    [][ (pc = "idle" /\ cur'.kind = "odds" /\ ~slateFile[today].exists)
          => /\ pc' = "error"
             /\ trace' = <<<<"exit", SlateNotFound(today)>>>>
             /\ oddsCsv' = <<>>
             /\ odds_by_key' = <<>> /\ slate_by_key' = <<>> /\ updated_rows' = <<>>
             /\ store' = store /\ nextId' = nextId /\ slateFile' = slateFile ]_vars

\* The day after a daily run: yesterday's snapshot and records exist, today's
\* snapshot does not, and the ingest has stopped with the error.
C5_Witness ==
    /\ pc = "error" /\ cur.kind = "odds"
    /\ today = <<"D2">>
    /\ slateFile[<<"D1">>].exists /\ ~slateFile[today].exists
    /\ store # {}
    /\ trace = <<<<"exit", SlateNotFound(today)>>>>

\* The usable odds row of key k that the join uses: the last one of the file.
LastUsable(k) ==
    LET js == {j \in 1..Len(oddsCsv) : Usable(oddsCsv[j]) /\ OddsKey(oddsCsv[j]) = k}
    IN  IF js = {} THEN 0 ELSE CHOOSE j \in js : \A m \in js : m <= j

\* C6, as the specification states it: a row with any numeric field that fails
\* to parse contributes nothing, so a game whose odds rows all have such a
\* failure (or lack date, away or home) gets empty market fields and picks.
C6_AsStated ==
    (cur.kind = "odds" /\ pc \in {"odds", "done"}) =>
        \A i \in 1..Len(updated_rows) :
            (\A j \in 1..Len(oddsCsv) :
                OddsKey(oddsCsv[j]) = RowKey(updated_rows[i])
                    => (~Keyed(oddsCsv[j]) \/ ParseFailure(oddsCsv[j])))
                => EmptyMarket(updated_rows[i])

\* C6, amended: a row is skipped when it lacks date, away or home or when one
\* of its moneylines fails to parse, and the run goes on; a row whose total
\* fails to parse is used with an empty total and No Edge 2; a row whose over
\* or under price fails to parse is used with both prices taken as -110, the
\* even market whose total pick is No Edge 2 whatever the other price says.
\* Every slate game gets one row; without a usable odds row its market fields,
\* picks and confidences are empty.
C6_UnusableRowsSkipped ==
    (cur.kind = "odds" /\ SlateExists(slateFile, today) /\ cur.input.exists) =>
        /\ pc \in {"odds", "done", "aborted"}
        /\ Len(updated_rows) = IF pc = "done" THEN Len(slate_by_key) ELSE pos - 1
        /\ \A i \in 1..Len(updated_rows) :
              LET row == updated_rows[i]
                  j == LastUsable(slate_by_key[i][1])
              IN  /\ RowKey(row) = slate_by_key[i][1]
                  /\ j = 0 => (EmptyMarket(row) /\ row = slate_by_key[i][2])
                  /\ j # 0 =>
                        /\ row["ml_home"] = Num(oddsCsv[j].ML_Home[2])
                        /\ row["ml_away"] = Num(oddsCsv[j].ML_Away[2])
                        /\ row["total"] = IF ParseOk(oddsCsv[j].Total)
                                          THEN Num(oddsCsv[j].Total[2]) ELSE None
                        /\ ~ParseOk(oddsCsv[j].Total)
                              => (row["pick_tot"] = NoEdge
                                  /\ row["conf_tot"] = Num(2))
                        /\ (ParseOk(oddsCsv[j].Total) /\ PriceFailure(oddsCsv[j]))
                              => /\ DictGet(odds_by_key, slate_by_key[i][1])[1].over_price = -110
                                 /\ DictGet(odds_by_key, slate_by_key[i][1])[1].under_price = -110
                                 /\ row["pick_tot"] = NoEdge
                                 /\ row["conf_tot"] = Num(2)
                        /\ ParseOk(oddsCsv[j].Total)
                              => (row["pick_tot"] # <<>> /\ row["conf_tot"] # None)
                        /\ row["pick_ml"] # <<>> /\ row["pick_rl"] # <<>>
                        /\ row["conf_ml"] # None /\ row["conf_rl"] # None

\* A finished ingest, for a slate of two games, of a file with a usable row
\* whose total does not parse, a row for the same game whose moneyline does not
\* parse, and a usable row for the other game whose over price does not parse
\* while its under price (-350) does: the first is used without a total, the
\* second skipped, the third used with its total and the prices -110/-110.
C6_Witness ==
    /\ pc = "done" /\ cur.kind = "odds"
    /\ Len(oddsCsv) = 3
    /\ Usable(oddsCsv[1]) /\ ~ParseOk(oddsCsv[1].Total)
    /\ Keyed(oddsCsv[2]) /\ ~ParseOk(oddsCsv[2].ML_Home)
    /\ OddsKey(oddsCsv[1]) = OddsKey(oddsCsv[2])
    /\ Usable(oddsCsv[3]) /\ ParseOk(oddsCsv[3].Total)
    /\ ~ParseOk(oddsCsv[3].Over_Price) /\ oddsCsv[3].Under_Price = NumCell(-350)
    /\ \E i \in 1..Len(updated_rows) :
          /\ RowKey(updated_rows[i]) = OddsKey(oddsCsv[1])
          /\ updated_rows[i]["ml_home"] = Num(oddsCsv[1].ML_Home[2])
          /\ updated_rows[i]["total"] = None
          /\ updated_rows[i]["pick_tot"] = NoEdge
    /\ \E i \in 1..Len(updated_rows) :
          /\ RowKey(updated_rows[i]) = OddsKey(oddsCsv[3])
          /\ updated_rows[i]["ml_home"] = Num(oddsCsv[3].ML_Home[2])
          /\ updated_rows[i]["total"] = Num(oddsCsv[3].Total[2])
          /\ updated_rows[i]["pick_tot"] = NoEdge
          /\ updated_rows[i]["conf_tot"] = Num(2)
          /\ updated_rows[i]["pick_ml"] # <<>>

\* =================================================== the keyed upsert
KeyOfPage(p) == p.properties["Key"]

UpsertCount == Len(SelectSeq(trace, LAMBDA e : e[1] = "upsert"))

\* C1, as the specification states it: a finished ingest has upserted, and
\* written to the joined snapshot, as many records as the slate snapshot it
\* read has entries.
C1_AsStated ==
    (cur.kind = "odds" /\ pc = "done") =>
        /\ UpsertCount = Len(slateFile[today].rows)
        /\ Len(updated_rows) = Len(slateFile[today].rows)
        /\ Len(WrittenRows) = Len(slateFile[today].rows)

\* At most one page per Game Key.
StoreKeyed == \A p, q \in store : KeyOfPage(p) = KeyOfPage(q) => p = q

\* The step of one upsert_prediction_row call, by the event it leaves.
UpsertReport ==
    (Len(trace') > Len(trace) /\ trace'[Len(trace) + 1][1] = "upsert") =>
        LET e == trace'[Len(trace) + 1]
            had == {p \in store : KeyOfPage(p) = rich(e[3])}
        IN  /\ e[2] \in {"created", "updated"}
            /\ e[2] = "created" <=> had = {}
            /\ had = {} =>
                  /\ e[4] \notin {p.id : p \in store}
                  /\ store \subseteq store'
                  /\ Cardinality(store') = Cardinality(store) + 1
                  /\ \E p \in store' : p.id = e[4] /\ KeyOfPage(p) = rich(e[3])
            /\ had # {} =>
                  /\ {p.id : p \in store'} = {p.id : p \in store}
                  /\ \E p \in had : p.id = e[4]
                  /\ \E p \in store' : p.id = e[4] /\ KeyOfPage(p) = rich(e[3])
                  /\ store \ had \subseteq store'

\* C3: from an empty store, whatever daily and ingest runs follow one another,
\* the store holds at most one page per Game Key, and every upsert reports
\* "created" exactly when no page had the key just before, adding one page,
\* and otherwise "updated", rewriting that page in place.
C3_KeyedUpsert == []StoreKeyed /\ [][UpsertReport]_vars

\* A run that updated the page of one game and created the page of another.
C3_Witness ==
    /\ Cardinality(store) = 2
    /\ \E i, j \in 1..Len(trace) :
          /\ trace[i][1] = "upsert" /\ trace[i][2] = "updated"
          /\ trace[j][1] = "upsert" /\ trace[j][2] = "created"
          /\ trace[i][3] # trace[j][3]

\* ============================================== the last run wins
\* A property the page lacks reads as empty.
Filled(p, name) ==
    /\ name \in DOMAIN p.properties
    /\ p.properties[name][2] # None /\ p.properties[name][2] # <<>>

LineProps == {"ML - Market Home", "ML - Market Away"}

\* The kind of the latest upsert of the page's Game Key.
Latest(p) == DictGet(lastWrite, p.properties["Key"][2])[1][2]
FilledBefore(p) == DictGet(lastWrite, p.properties["Key"][2])[1][1]

Matched(p) == Latest(p) \in {"odds, matched", "odds, matched, no total"}

\* C10, as the specification states it: with a schema that has every field, a
\* page's market fields and picks are non-empty exactly when the latest upsert
\* of its key came from an ingest in which a valid odds row matched the key.
C10_AsStated ==
    schema = FullSchema =>
        \A p \in store :
            (\A name \in MarketProps \cup PickProps : Filled(p, name)) <=> Matched(p)

\* C10, amended: the moneylines, the picks and the confidences of a page are
\* non-empty exactly when the latest upsert of its key came from an ingest in
\* which a usable odds row matched; the total is non-empty exactly when that
\* row's total parsed as well. After a daily run, or an ingest without a match,
\* all of them are empty, whatever an earlier run had stored.
C10_LastRunWins ==
    schema = FullSchema =>
        \A p \in store :
            /\ \A name \in LineProps \cup PickProps : Filled(p, name) <=> Matched(p)
            /\ Filled(p, "Total (Market)") <=> Latest(p) = "odds, matched"

\* A page that an ingest filled and the daily run after it emptied again.
C10_Witness ==
    /\ schema = FullSchema
    /\ \E p \in store :
          /\ FilledBefore(p) /\ Latest(p) = "daily"
          /\ \A name \in MarketProps \cup PickProps : ~Filled(p, name)

\* ================================================== retrying a run
\* The rows the ingest of an odds file upserts, in order, from today's snapshot.
IngestRows(file) ==
    LET sbk == SlateByKey(LoadSlateRows(slateFile[today].rows), <<>>)
        obk == OddsByKey(file.rows, <<>>)
    IN  [i \in 1..Len(sbk) |->
            LET found == DictGet(obk, sbk[i][1])
            IN  JoinRow(sbk[i][2], found,
                        IF found = <<>> THEN <<>> ELSE TiesOf(tie, found[1]))]

\* The rows the running run upserts when nothing interrupts it.
RowsOfRun ==
    IF cur.kind = "daily" THEN fetch_todays_slate_from_mlb(cur.input, today)
    ELSE IngestRows(cur.input)

\* C4: a run aborted by a store failure at a record keeps the records it
\* processed before (nothing is rolled back); the same run repeated in full
\* with the same inputs leaves the store as one uninterrupted run from the
\* state before the failed attempts would have; and a completed run repeated
\* leaves the store as it found it.
C4_RetrySafe ==
    cur.kind # "none" =>
        /\ pc = "aborted" =>
              /\ store = RunRows(cur.start, cur.startId,
                                 SubSeq(RowsOfRun, 1, pos - 1), schema).store
              /\ {p.id : p \in cur.start} \subseteq {p.id : p \in store}
        /\ (pc = "done" /\ cur.chain = "aborted") =>
              /\ store = RunRows(cur.base, cur.baseId, RowsOfRun, schema).store
              /\ nextId = RunRows(cur.base, cur.baseId, RowsOfRun, schema).nextId
        /\ (pc = "done" /\ cur.chain = "done") =>
              /\ store = cur.start
              /\ nextId = cur.startId

\* A rerun that completed after an attempt that had failed partway: the failed
\* attempt had committed records, and the rerun added to them.
C4_Witness ==
    /\ pc = "done" /\ cur.kind = "odds" /\ cur.chain = "aborted"
    /\ cur.start # cur.base
    /\ store # cur.start
    /\ Cardinality(store) > Cardinality(cur.base)
====
